---- MODULE Spec2Model ----
(***************************************************************************)
(* Model of the AI product optimizer: the optimization engine              *)
(* (src/engine/optimizer.py), its batch fan-out behind an asyncio          *)
(* semaphore, the scoring heuristic, and the request layer's batch-result  *)
(* store (src/main.py).                                                    *)
(***************************************************************************)
EXTENDS Integers, Sequences, FiniteSets, TLC

(***************************************************************************)
(* IEEE-754 doubles.  Every double the scoring code can produce is a       *)
(* multiple of 2^-55.  A double is kept as two limbs, value =              *)
(* (hi * 2^28 + lo) * 2^-55, so that all arithmetic stays below 2^31.      *)
(* Addition is exact addition followed by round-to-nearest-even to 53      *)
(* significant bits, as the hardware does it.                              *)
(***************************************************************************)
Limb == 2^28

FZero == [hi |-> 0, lo |-> 0]

\* 1.0 = 2^55 units
FOne == [hi |-> 2^27, lo |-> 0]

\* the double nearest 0.2 is 0x1.999999999999ap-3 = 7205759403792794 units
W_title_hi == 26843545
W_title_lo == 161061274
\* ai_description carries the same weight, 0.2
W_description_hi == 26843545
W_description_lo == 161061274
\* the double nearest 0.15 is 0x1.3333333333333p-3 = 5404319552844595 units
W_tags_hi == 20132659
W_tags_lo == 53687091
W_use_cases_hi == 20132659
W_use_cases_lo == 53687091
W_faq_hi == 20132659
W_faq_lo == 53687091
W_queries_hi == 20132659
W_queries_lo == 53687091

\* the spacing of doubles (in units of 2^-55) in the binade that holds hi
Granule(hi) ==
    IF hi < 2^25 THEN 1
    ELSE IF hi < 2^26 THEN 2
    ELSE IF hi < 2^27 THEN 4
    ELSE IF hi < 2^28 THEN 8
    ELSE IF hi < 2^29 THEN 16
    ELSE 32

\* round the exact value hi * 2^28 + lo to the nearest double, ties to even
FRound(hi, lo) ==
    LET g   == Granule(hi)
        r   == lo % g
        q   == lo \div g
        up  == (2 * r > g) \/ (2 * r = g /\ q % 2 = 1)
        lo2 == (lo - r) + (IF up THEN g ELSE 0)
    IN  IF lo2 = Limb THEN [hi |-> hi + 1, lo |-> 0] ELSE [hi |-> hi, lo |-> lo2]

\* a + b on doubles
FAdd(a, b) ==
    LET s == a.lo + b.lo
    IN  FRound(a.hi + b.hi + (s \div Limb), s % Limb)

FLe(a, b) == a.hi < b.hi \/ (a.hi = b.hi /\ a.lo <= b.lo)

\* Python's min(a, b): b unless a < b
FMin(a, b) == IF FLe(b, a) THEN b ELSE a

(***************************************************************************)
(* The parsed optimization JSON.  A field of the JSON object is absent, or *)
(* present with an empty value ("" or []), a non-empty value of the        *)
(* expected type, or JSON null.                                            *)
(***************************************************************************)
FieldKinds == {"absent", "empty", "value", "null"}

ScoredFields == {"ai_title", "ai_description", "semantic_tags", "use_cases",
                 "faq_content", "conversational_queries"}

DataFields == ScoredFields \cup {"ai_summary"}

\* a presence test in place of the truthiness test: "is not None"
Truthy_IsNotNone(d, f) == d[f] \in {"empty", "value"}

\* Python truthiness of optimization_data.get(field): None, "" and [] are falsy
Truthy(d, f) == d[f] = "value"

\* one line of _calculate_optimization_score: if data.get(f): score += w
ScoreStep(acc, d, f, w) == IF Truthy(d, f) THEN FAdd(acc, w) ELSE acc

\* _calculate_optimization_score
_calculate_optimization_score(d) ==
    LET s0 == FZero
        s1 == ScoreStep(s0, d, "ai_title", [hi |-> W_title_hi, lo |-> W_title_lo])
        s2 == ScoreStep(s1, d, "ai_description",
                        [hi |-> W_description_hi, lo |-> W_description_lo])
        s3 == ScoreStep(s2, d, "semantic_tags", [hi |-> W_tags_hi, lo |-> W_tags_lo])
        s4 == ScoreStep(s3, d, "use_cases",
                        [hi |-> W_use_cases_hi, lo |-> W_use_cases_lo])
        s5 == ScoreStep(s4, d, "faq_content", [hi |-> W_faq_hi, lo |-> W_faq_lo])
        s6 == ScoreStep(s5, d, "conversational_queries",
                        [hi |-> W_queries_hi, lo |-> W_queries_lo])
    IN  FMin(s6, FOne)

(***************************************************************************)
(* JSON values and AI-service replies.                                     *)
(* A JSON value is an object (with the fields above), some other JSON      *)
(* value (array, string, number, null: "array" stands for them), or text   *)
(* that is no JSON at all ("garbage").                                     *)
(***************************************************************************)
AllFields(k) == [f \in DataFields |-> k]

JObject(fields) == [kind |-> "object", fields |-> fields]

\* a complete, well-typed optimization object
FullObject == JObject(AllFields("value"))

\* an object that holds a title only
TitleOnly == JObject([AllFields("absent") EXCEPT !["ai_title"] = "value"])

\* the empty object {}
EmptyObject == JObject(AllFields("absent"))

\* a complete object whose use_cases is null
NullUseCases == JObject([AllFields("value") EXCEPT !["use_cases"] = "null"])

\* valid JSON that is not an object, such as ["x"]
ArrayJSON == [kind |-> "array", fields |-> AllFields("absent")]

\* text that json.loads rejects
Garbage == [kind |-> "garbage", fields |-> AllFields("absent")]

\* response.content[0].text: the body, bare or inside a code fence
\* ("json": ```json ... ```, "plain": ``` ... ```)
Text(fence, body) == [fence |-> fence, body |-> body]

\* lines 148-149: a text that starts with ```json loses every fence marker;
\* any other text is parsed as it is
StripFence(text) ==
    IF text.fence = "json" THEN Text("none", text.body) ELSE text

\* json.loads(content) raises JSONDecodeError
JSONDecodeError(text) == text.fence # "none" \/ text.body.kind = "garbage"

\* an outcome of a call: a value, or an exception with its message (with v
\* a placeholder of the value's type)
Ok(v) == [ok |-> TRUE, value |-> v, error |-> <<>>]
Raise(msg, v) == [ok |-> FALSE, value |-> v, error |-> msg]

\* the replies of the AI service: a text, or a failure of the given kind that
\* carries the service's message
Reply(text) == [status |-> "ok", text |-> text, msg |-> ""]
Failure(kind, msg) == [status |-> kind, text |-> Text("none", Garbage), msg |-> msg]

FailureKinds == {"AuthenticationError", "RateLimitError", "APIError", "Exception"}

\* str(e) of a failure of each kind, as the service words it
ServiceMessage(kind) ==
    CASE kind = "AuthenticationError" -> "401 invalid x-api-key"
      [] kind = "RateLimitError"      -> "429 rate_limit_error"
      [] kind = "APIError"            -> "529 overloaded_error"
      [] OTHER                        -> "list index out of range"

\* messages of str(e)
MSG_ATTRIBUTE == "'list' object has no attribute 'get'"
MSG_NOT_ITERABLE == "'NoneType' object is not iterable"
MSG_NOT_SUBSCRIPTABLE == "'NoneType' object is not subscriptable"
MSG_VALIDATION == "validation error for OptimizedProduct"
MSG_JSON == "Expecting value: line 1 column 1 (char 0)"

\* a parse failure that is swallowed: the empty object stands in for the reply
_generate_optimizations_Swallows(reply) ==
    IF reply.status = "AuthenticationError"
    THEN Raise(<<"Invalid API key: ", reply.msg>>, Garbage)
    ELSE IF reply.status = "RateLimitError"
    THEN Raise(<<"Rate limit exceeded: ", reply.msg>>, Garbage)
    ELSE IF reply.status = "APIError"
    THEN Raise(<<"Anthropic API error: ", reply.msg>>, Garbage)
    ELSE IF reply.status = "Exception"
    THEN Raise(<<"AI service error: ", reply.msg>>, Garbage)
    ELSE IF JSONDecodeError(StripFence(reply.text))
    THEN Ok(EmptyObject)
    ELSE Ok(StripFence(reply.text).body)

\* a rate-limit clause that words its own message and drops str(e)
_generate_optimizations_DropsMessage(reply) ==
    IF reply.status = "AuthenticationError"
    THEN Raise(<<"Invalid API key: ", reply.msg>>, Garbage)
    ELSE IF reply.status = "RateLimitError"
    THEN Raise(<<"Rate limit exceeded">>, Garbage)
    ELSE IF reply.status = "APIError"
    THEN Raise(<<"Anthropic API error: ", reply.msg>>, Garbage)
    ELSE IF reply.status = "Exception"
    THEN Raise(<<"AI service error: ", reply.msg>>, Garbage)
    ELSE IF JSONDecodeError(StripFence(reply.text))
    THEN Raise(<<"Invalid AI response format">>, Garbage)
    ELSE Ok(StripFence(reply.text).body)

\* _generate_optimizations, lines 132-169: the call to the AI service, the
\* fence stripping, json.loads, and the five except clauses
_generate_optimizations(reply) ==
    IF reply.status = "AuthenticationError"
    THEN Raise(<<"Invalid API key: ", reply.msg>>, Garbage)
    ELSE IF reply.status = "RateLimitError"
    THEN Raise(<<"Rate limit exceeded: ", reply.msg>>, Garbage)
    ELSE IF reply.status = "APIError"
    THEN Raise(<<"Anthropic API error: ", reply.msg>>, Garbage)
    ELSE IF reply.status = "Exception"
    THEN Raise(<<"AI service error: ", reply.msg>>, Garbage)
    ELSE IF JSONDecodeError(StripFence(reply.text))
    THEN Raise(<<"Invalid AI response format">>, Garbage)
    ELSE Ok(StripFence(reply.text).body)

\* a json_ld_schema value: who built it ("ai" or "basic") and its JSON kind
Schema(src, kind) == [src |-> src, kind |-> kind]

\* _generate_basic_schema, lines 236-252: optimization_data.get(...) on the
\* parsed JSON
_generate_basic_schema(data) ==
    IF data.kind # "object" THEN Raise(<<MSG_ATTRIBUTE>>, Schema("basic", "object"))
    ELSE Ok(Schema("basic", "object"))

\* _generate_schemas, lines 171-193: any exception of the call or of the
\* parse leads to the basic schema; whatever JSON parses is returned
_generate_schemas(reply, data) ==
    IF reply.status # "ok" \/ JSONDecodeError(StripFence(reply.text))
    THEN _generate_basic_schema(data)
    ELSE Ok(Schema("ai", StripFence(reply.text).body.kind))

\* _generate_basic_shadow_page, lines 254-264: .get on the parsed JSON, then
\* a loop over optimization_data.get('use_cases', [])
_generate_basic_shadow_page(data) ==
    IF data.kind # "object" THEN Raise(<<MSG_ATTRIBUTE>>, "basic")
    ELSE IF data.fields["use_cases"] = "null" THEN Raise(<<MSG_NOT_ITERABLE>>, "basic")
    ELSE Ok("basic")

\* _generate_shadow_page, lines 195-213: the service's text verbatim ("ai"), or
\* the local fragment on any exception
_generate_shadow_page(reply, data) ==
    IF reply.status # "ok" THEN _generate_basic_shadow_page(data) ELSE Ok("ai")

\* _generate_meta_data, lines 215-224: .get(...)[:60] and .get(...)[:160]
_generate_meta_data(data) ==
    IF data.kind # "object" THEN Raise(<<MSG_ATTRIBUTE>>, "meta")
    ELSE IF data.fields["ai_title"] = "null" \/ data.fields["ai_summary"] = "null"
    THEN Raise(<<MSG_NOT_SUBSCRIPTABLE>>, "meta")
    ELSE Ok("meta")

\* the validation of OptimizedProduct(...), src/models/product.py lines 24-37:
\* str and List fields reject null, json_ld_schema must be a dict
ValidationError(data, schema) ==
    \/ \E f \in DataFields : data.fields[f] = "null"
    \/ schema.kind # "object"

\* an Optimized Result, lines 58-71
OptimizedProduct(product, data, schema, shadow) ==
    [product_id          |-> product.product_id,
     json_ld_schema      |-> schema.src,
     shadow_page_content |-> shadow,
     optimization_score  |-> _calculate_optimization_score(data.fields)]

\* what optimize_product yields: an Optimized Result or an exception
Returned(result) == [ok |-> TRUE, result |-> <<result>>, error |-> <<>>]
Raised(msg) == [ok |-> FALSE, result |-> <<>>, error |-> msg]

\* optimize_product, lines 76-78:
\* raise Exception(f"Product optimization failed: {str(e)}")
OptimizationFailure(msg) == Raised(<<"Product optimization failed: ">> \o msg)

\* optimize_product, lines 52-74, after the three AI steps: meta data, score,
\* assembly of the Optimized Result
AssembleResult(product, data, schema, shadow) ==
    IF ~_generate_meta_data(data).ok
    THEN OptimizationFailure(_generate_meta_data(data).error)
    ELSE IF ValidationError(data, schema) THEN OptimizationFailure(<<MSG_VALIDATION>>)
    ELSE Returned(OptimizedProduct(product, data, schema, shadow))

(***************************************************************************)
(* Bounds of the model and the inputs drawn from them.                     *)
(***************************************************************************)
\* batch submissions in one run of the request layer
MaxRequests == 2

\* products in one submitted batch
MaxProducts == 3

\* the largest max_concurrent option a caller passes
MaxConcurrent == 2

\* options.get('max_concurrent', 3) if options else 3
DefaultMaxConcurrent == 3

Reqs == 1..MaxRequests

ProductIds == {"p1", "p2"}

\* a Product Record; of its fields only product_id reaches the batch summary
ProductInput == [product_id : ProductIds]

ProductLists(n) == UNION {[1..k -> ProductInput] : k \in 0..n}

\* optimization_options: <<>> when the caller gives no max_concurrent, <<n>>
\* when the caller gives n
OptionValues(n) == {<<>>} \cup {<<k>> : k \in (0 - 1)..n}

\* batch ids: caller-supplied names and generated uuids
CallerId(c) == <<"caller", c>>
Uuid(n) == <<"uuid", n>>
CallerIds == {CallerId(1)}

VARIABLES
    api_key,        \* the ANTHROPIC_API_KEY environment variable: "set" or "unset"
    ready,          \* the event loop's FIFO of runnable coroutines, <<r, i>>:
                    \* task i of request r, or (i = 0) the handler of request r
    running,        \* the task that holds the thread in a blocking AI call
    hpc,            \* per request: where its handler is
    req,            \* per request: the BatchOptimizationRequest
    batch_id,       \* per request: the batch id the handler settled on
    sem,            \* per request: the asyncio.Semaphore of its optimize_batch
    pc,             \* per request: where each of its tasks is
    cur,            \* locals of the running optimize_product
    opres,          \* per request and task: what optimize_product yielded
                    \* ("returned", or "raised" with the exception's message)
    gathered,       \* per request: optimization_results, one slot per task
    errors,         \* per request: the errors list
    ai_calls,       \* per request and task: the log of the AI service, one
                    \* entry per call: the step, how the service replied, and
                    \* the message of the error the reply caused
    summary,        \* per request: what engine.optimize_batch returned
    response,       \* per request: the HTTP response
    batch_results,  \* the process-wide store, batch id -> Batch Run
    uuids,          \* how many uuids have been generated
    last_read,      \* the last answer of get_batch_result
    first_stored,   \* history: the Batch Run first stored under each batch id
    score_in,       \* scoring alone: the optimization data handed to it
    score_out,      \* scoring alone: the score it returned
    feed_in,        \* export alone: the list of Optimized Results handed over
    xml_out,        \* export alone: what generate_google_merchant_xml yielded
    csv_out         \* export alone: what generate_meta_tiktok_csv yielded

engine_vars == <<api_key, ready, running, hpc, req, batch_id, sem, pc, cur, opres,
                 gathered, errors, ai_calls, summary, response, batch_results,
                 uuids, last_read, first_stored>>

NoTask == <<0, 0>>

NoLocals == [optimization_data |-> Garbage, schema_data |-> Schema("basic", "object")]

\* every batch id a run can meet
AllIds == CallerIds \cup {Uuid(n) : n \in 1..MaxRequests}

score_vars == <<score_in, score_out>>

feed_vars == <<feed_in, xml_out, csv_out>>

vars == <<engine_vars, score_vars, feed_vars>>

ScoreIdle == score_in = AllFields("absent") /\ score_out = <<>>

FeedIdle == feed_in = <<>> /\ xml_out = <<>> /\ csv_out = <<>>

EngineInit ==
    /\ api_key \in {"set", "unset"}
    /\ ready = <<>>
    /\ running = NoTask
    /\ hpc = [r \in Reqs |-> "none"]
    /\ req = [r \in Reqs |-> [batch_id |-> <<>>, products |-> <<>>,
                             optimization_options |-> <<>>]]
    /\ batch_id = [r \in Reqs |-> <<>>]
    /\ sem = [r \in Reqs |-> [value |-> 0, waiters |-> <<>>]]
    /\ pc = [r \in Reqs |-> <<>>]
    /\ cur = NoLocals
    /\ opres = [r \in Reqs |-> <<>>]
    /\ gathered = [r \in Reqs |-> <<>>]
    /\ errors = [r \in Reqs |-> <<>>]
    /\ ai_calls = [r \in Reqs |-> <<>>]
    /\ summary = [r \in Reqs |-> <<>>]
    /\ response = [r \in Reqs |-> <<>>]
    /\ batch_results = [id \in AllIds |-> <<>>]
    /\ uuids = 0
    /\ last_read = <<>>
    /\ first_stored = [id \in AllIds |-> <<>>]

Init == EngineInit /\ ScoreIdle /\ FeedIdle

(***************************************************************************)
(* asyncio.Semaphore, as optimize_batch uses it (lines 86 and 89).         *)
(***************************************************************************)
\* Semaphore(value) raises ValueError when value < 0
SemaphoreValueError(value) == value < 0

Semaphore(value) == [value |-> value, waiters |-> <<>>]

\* Semaphore.locked(): no permit left, or somebody already waits
locked(s) == s.value = 0 \/ s.waiters # <<>>

\* an acquire that takes no permit
acquire_NoDecrement(s) == s

\* Semaphore.acquire() on a semaphore that is not locked
acquire(s) == [s EXCEPT !.value = s.value - 1]

\* Semaphore.acquire() on a locked semaphore: the task queues up
enqueue(s, i) == [s EXCEPT !.waiters = Append(s.waiters, i)]

\* Semaphore.release(): one more permit, handed at once to the first waiter
release(s) ==
    IF s.waiters = <<>> THEN [s EXCEPT !.value = s.value + 1]
    ELSE [s EXCEPT !.waiters = Tail(s.waiters)]

\* the waiter release() wakes up, as a list of at most one task
woken(s) == IF s.waiters = <<>> THEN <<>> ELSE <<Head(s.waiters)>>

(***************************************************************************)
(* The batch summary, optimizer.py lines 102-115.                          *)
(***************************************************************************)
RECURSIVE Flatten_NewestFirst(_)
\* a list built by putting each later result in front
Flatten_NewestFirst(slots) ==
    IF slots = <<>> THEN <<>> ELSE Flatten_NewestFirst(Tail(slots)) \o Head(slots)

RECURSIVE Flatten(_)
\* the slots of optimization_results that hold an Optimized Result, in order
Flatten(slots) ==
    IF slots = <<>> THEN <<>> ELSE Head(slots) \o Flatten(Tail(slots))

RECURSIVE FSum(_)
\* sum(r.optimization_score for r in results), left to right from 0
FSum(results) ==
    IF results = <<>> THEN FZero
    ELSE FAdd(FSum(SubSeq(results, 1, Len(results) - 1)),
              results[Len(results)].optimization_score)

\* the quotient num / den of a double by a count; every zero is written 0 / 1
Quotient(num, den) ==
    IF num = FZero THEN [num |-> FZero, den |-> 1] ELSE [num |-> num, den |-> den]

\* a mean over all the submitted products, failed ones included
average_OverAllProducts(results, products) ==
    IF products # <<>> THEN Quotient(FSum(results), Len(products))
    ELSE Quotient(FZero, 1)

\* line 105: sum(...) / len(results) if results else 0
average(results, products) ==
    IF results # <<>> THEN Quotient(FSum(results), Len(results))
    ELSE Quotient(FZero, 1)

\* lines 102-115 of optimize_batch, and result['batch_id'] = batch_id
BatchSummary(products, slots, errs, id) ==
    [total_products             |-> Len(products),
     successful_optimizations   |-> Len(Flatten(slots)),
     failed_optimizations       |-> Len(errs),
     results                    |-> Flatten(slots),
     errors                     |-> errs,
     average_optimization_score |-> average(Flatten(slots), products),
     batch_id                   |-> id]

(***************************************************************************)
(* The batch-result store, main.py lines 47, 130 and 146-150.              *)
(***************************************************************************)
\* a store that is rebuilt on every write and holds the latest run only
put_KeepsOnlyLatest(store, id, run) == [x \in AllIds |-> IF x = id THEN <<run>> ELSE <<>>]

\* batch_results[batch_id] = result
put(store, id, run) == [store EXCEPT ![id] = <<run>>]

\* the history of first writes
remember(first, id, run) == IF first[id] = <<>> THEN [first EXCEPT ![id] = <<run>>] ELSE first

\* the body of the 200 response, main.py lines 132-142
BatchResponse(run) ==
    [status_code |-> 200,
     batch_id    |-> run.batch_id,
     total       |-> run.total_products,
     successful  |-> run.successful_optimizations,
     failed      |-> run.failed_optimizations,
     detail      |-> ""]

\* raise HTTPException(status_code=500, detail=str(e)), main.py lines 143-144
ServerError(detail) ==
    [status_code |-> 500, batch_id |-> Uuid(0), total |-> 0, successful |-> 0,
     failed |-> 0, detail |-> detail]

(***************************************************************************)
(* Records of what happened: outcomes of optimize_product, the service log. *)
(***************************************************************************)
\* what optimize_product yielded, for the record
Pending == [state |-> "pending", error |-> <<>>]
Yielded(outcome) ==
    [state |-> IF outcome.ok THEN "returned" ELSE "raised", error |-> outcome.error]

\* the log of the AI service: a call goes out, a reply comes back.  A reply is
\* "ok" (a JSON object, or any text for the shadow page), "nulled" (a content
\* object with a null field), "misshapen" (valid JSON that is no object),
\* "unparseable" (no JSON, also after the optional ```json fence is taken off)
\* or "error" (the call failed)
ReplyClass(step, reply) ==
    IF reply.status # "ok" THEN "error"
    ELSE IF step = "shadow" THEN "ok"
    ELSE IF reply.text.fence = "plain" \/ reply.text.body.kind = "garbage"
    THEN "unparseable"
    ELSE IF reply.text.body.kind # "object" THEN "misshapen"
    ELSE IF step = "content" /\ \E f \in DataFields : reply.text.body.fields[f] = "null"
    THEN "nulled"
    ELSE "ok"

\* the message of the exception a reply raises in the code that reads it
OriginalMessage(step, reply) ==
    IF reply.status # "ok" THEN reply.msg
    ELSE IF ReplyClass(step, reply) = "unparseable" THEN MSG_JSON
    ELSE ""

Called(log, step) == Append(log, [step |-> step, reply |-> "pending", original |-> ""])

Replied(log, reply) ==
    [log EXCEPT ![Len(log)] =
        [step     |-> log[Len(log)].step,
         reply    |-> ReplyClass(log[Len(log)].step, reply),
         original |-> OriginalMessage(log[Len(log)].step, reply)]]

\* a wrapper that hands back a stub result for a product that failed
Slot_Stub(outcome) ==
    IF outcome.ok THEN outcome.result
    ELSE <<[product_id |-> "p1", json_ld_schema |-> "basic",
            shadow_page_content |-> "basic", optimization_score |-> FZero]>>

\* lines 91 and 97: what optimize_with_semaphore returns to gather, the
\* Optimized Result or None
Slot(outcome) == outcome.result

(***************************************************************************)
(* The request layer and the engine as coroutines of one event loop.       *)
(* The loop runs the head of its FIFO; a coroutine runs until it awaits a  *)
(* pending future.  The client is anthropic.Anthropic (line 24), whose     *)
(* messages.create blocks the thread: while a task is in an AI call it     *)
(* stays the running coroutine and nothing else is scheduled.              *)
(***************************************************************************)
LoopIdle == running = NoTask

NextUp(r, i) == LoopIdle /\ ready # <<>> /\ Head(ready) = <<r, i>>

\* a POST /api/optimize-batch arrives: its handler becomes runnable
Arrive(r, lists, opts) ==
    /\ LoopIdle
    /\ hpc[r] = "none"
    /\ \A q \in Reqs : q < r => hpc[q] # "none"
    /\ \E b \in {<<>>} \cup {<<id>> : id \in CallerIds \cup {Uuid(n) : n \in 1..uuids}},
          l \in lists, o \in opts :
          req' = [req EXCEPT ![r] = [batch_id |-> b, products |-> l,
                                     optimization_options |-> o]]
    /\ hpc' = [hpc EXCEPT ![r] = "queued"]
    /\ ready' = Append(ready, <<r, 0>>)
    /\ UNCHANGED <<api_key, running, batch_id, sem, pc, cur, opres, gathered, errors,
                   ai_calls, summary, response, batch_results, uuids, last_read,
                   first_stored, score_vars, feed_vars>>

\* line 85: max_concurrent = options.get('max_concurrent', 3) if options else 3
max_concurrent(options) ==
    IF options = <<>> THEN DefaultMaxConcurrent ELSE options[1]

\* main.py line 126: batch_id = request.batch_id or str(uuid.uuid4())
SettledId(r) == IF req[r].batch_id = <<>> THEN Uuid(uuids + 1) ELSE req[r].batch_id[1]

\* engine.optimize_batch has returned: main.py lines 128-142
StoreAndRespond(r, id, slots) ==
    LET run == BatchSummary(req[r].products, slots, errors[r], id)
    IN  /\ summary' = [summary EXCEPT ![r] = <<run>>]
        /\ batch_results' = put(batch_results, id, run)
        /\ first_stored' = remember(first_stored, id, run)
        /\ response' = [response EXCEPT ![r] = <<BatchResponse(run)>>]
        /\ hpc' = [hpc EXCEPT ![r] = "done"]

\* the handler fails: main.py lines 143-144
Fail500(r, detail) ==
    /\ response' = [response EXCEPT ![r] = <<ServerError(detail)>>]
    /\ hpc' = [hpc EXCEPT ![r] = "failed"]
    /\ UNCHANGED <<summary, batch_results, first_stored>>

\* the handler of POST /api/optimize-batch up to its first suspension:
\* main.py lines 121-127 and optimizer.py lines 80-100
HandlerStart(r) ==
    /\ NextUp(r, 0)
    /\ hpc[r] = "queued"
    /\ LET n  == Len(req[r].products)
           mc == max_concurrent(req[r].optimization_options)
       IN  IF api_key = "unset"
           THEN \* get_api_key raises before a batch id is settled
                /\ Fail500(r, "API key not configured")
                /\ ready' = Tail(ready)
                /\ UNCHANGED <<batch_id, uuids, sem, pc, opres, gathered, ai_calls>>
           ELSE /\ batch_id' = [batch_id EXCEPT ![r] = <<SettledId(r)>>]
                /\ uuids' = IF req[r].batch_id = <<>> THEN uuids + 1 ELSE uuids
                /\ IF SemaphoreValueError(mc)
                   THEN \* asyncio.Semaphore(max_concurrent) raises ValueError
                        /\ Fail500(r, "Semaphore initial value must be >= 0")
                        /\ ready' = Tail(ready)
                        /\ UNCHANGED <<sem, pc, opres, gathered, ai_calls>>
                   ELSE /\ sem' = [sem EXCEPT ![r] = Semaphore(mc)]
                        /\ pc' = [pc EXCEPT ![r] = [i \in 1..n |-> "created"]]
                        /\ opres' = [opres EXCEPT ![r] = [i \in 1..n |-> Pending]]
                        /\ gathered' = [gathered EXCEPT ![r] = [i \in 1..n |-> <<>>]]
                        /\ ai_calls' = [ai_calls EXCEPT ![r] = [i \in 1..n |-> <<>>]]
                        /\ IF n = 0
                           THEN \* gather() of nothing is done at once: no suspension
                                /\ StoreAndRespond(r, SettledId(r), <<>>)
                                /\ ready' = Tail(ready)
                           ELSE /\ hpc' = [hpc EXCEPT ![r] = "gather"]
                                /\ ready' = Tail(ready) \o [i \in 1..n |-> <<r, i>>]
                                /\ UNCHANGED <<summary, batch_results, first_stored,
                                               response>>
    /\ UNCHANGED <<api_key, running, req, cur, errors, last_read, score_vars, feed_vars>>

\* optimize_with_semaphore begins (lines 88-91): async with semaphore, then
\* optimize_product renders its prompt and calls the AI service
TaskStart(r, i) ==
    /\ NextUp(r, i)
    /\ i >= 1
    /\ pc[r][i] \in {"created", "woken"}
    /\ ready' = Tail(ready)
    /\ IF pc[r][i] = "created" /\ locked(sem[r])
       THEN /\ sem' = [sem EXCEPT ![r] = enqueue(sem[r], i)]
            /\ pc' = [pc EXCEPT ![r][i] = "waiting"]
            /\ UNCHANGED <<running, ai_calls>>
       ELSE /\ sem' = [sem EXCEPT ![r] = IF pc[r][i] = "created" THEN acquire(sem[r])
                                         ELSE sem[r]]
            /\ pc' = [pc EXCEPT ![r][i] = "content"]
            /\ running' = <<r, i>>
            /\ ai_calls' = [ai_calls EXCEPT ![r][i] = Called(@, "content")]
    /\ UNCHANGED <<api_key, hpc, req, batch_id, cur, opres, gathered, errors, summary,
                   response, batch_results, uuids, last_read, first_stored, score_vars, feed_vars>>

\* a handler that returns None without recording the error
Caught_Swallowed(r, i, outcome) == errors[r]

\* lines 92-97: the handler of optimize_with_semaphore
Caught(r, i, outcome) ==
    IF outcome.ok THEN errors[r]
    ELSE Append(errors[r], [product_id |-> req[r].products[i].product_id,
                            error |-> outcome.error])

\* optimize_with_semaphore ends (lines 91-97): optimize_product has yielded
\* `outcome`; the wrapper returns the result or records the error and returns
\* None, the semaphore is released, and gather notes the finished task
TaskEnd(r, i, outcome) ==
    /\ opres' = [opres EXCEPT ![r][i] = Yielded(outcome)]
    /\ gathered' = [gathered EXCEPT ![r][i] = Slot(outcome)]
    /\ errors' = [errors EXCEPT ![r] = Caught(r, i, outcome)]
    /\ sem' = [sem EXCEPT ![r] = release(sem[r])]
    /\ pc' = [pc EXCEPT ![r] = [j \in DOMAIN pc[r] |->
                 IF j = i THEN "done"
                 ELSE IF <<j>> = woken(sem[r]) THEN "woken" ELSE pc[r][j]]]
    /\ running' = NoTask
    /\ cur' = NoLocals
    /\ ready' = ready
                \o [k \in 1..Len(woken(sem[r])) |-> <<r, woken(sem[r])[k]>>]
                \o (IF \A j \in DOMAIN pc[r] : j = i \/ pc[r][j] = "done"
                    THEN <<<<r, 0>>>> ELSE <<>>)

\* the content-generation call returns: _generate_optimizations, and on
\* success the schema call goes out (optimize_product lines 44-47)
ContentReply(r, i, replies) ==
    /\ running = <<r, i>>
    /\ pc[r][i] = "content"
    /\ \E reply \in replies :
         LET out == _generate_optimizations(reply)
         IN  IF out.ok
             THEN /\ cur' = [cur EXCEPT !.optimization_data = out.value]
                  /\ pc' = [pc EXCEPT ![r][i] = "schema"]
                  /\ ai_calls' = [ai_calls EXCEPT ![r][i] =
                                     Called(Replied(@, reply), "schema")]
                  /\ UNCHANGED <<ready, running, sem, opres, gathered, errors>>
             ELSE /\ TaskEnd(r, i, OptimizationFailure(out.error))
                  /\ ai_calls' = [ai_calls EXCEPT ![r][i] = Replied(@, reply)]
    /\ UNCHANGED <<api_key, hpc, req, batch_id, summary, response, batch_results, uuids,
                   last_read, first_stored, score_vars, feed_vars>>

\* the schema call returns: _generate_schemas, then the shadow-page call goes
\* out (optimize_product lines 47-50)
SchemaReply(r, i, replies) ==
    /\ running = <<r, i>>
    /\ pc[r][i] = "schema"
    /\ \E reply \in replies :
         LET out == _generate_schemas(reply, cur.optimization_data)
         IN  IF out.ok
             THEN /\ cur' = [cur EXCEPT !.schema_data = out.value]
                  /\ pc' = [pc EXCEPT ![r][i] = "shadow"]
                  /\ ai_calls' = [ai_calls EXCEPT ![r][i] =
                                     Called(Replied(@, reply), "shadow")]
                  /\ UNCHANGED <<ready, running, sem, opres, gathered, errors>>
             ELSE /\ TaskEnd(r, i, OptimizationFailure(out.error))
                  /\ ai_calls' = [ai_calls EXCEPT ![r][i] = Replied(@, reply)]
    /\ UNCHANGED <<api_key, hpc, req, batch_id, summary, response, batch_results, uuids,
                   last_read, first_stored, score_vars, feed_vars>>

\* the shadow-page call returns: _generate_shadow_page, then meta data, score
\* and the Optimized Result (optimize_product lines 50-74)
ShadowReply(r, i, replies) ==
    /\ running = <<r, i>>
    /\ pc[r][i] = "shadow"
    /\ \E reply \in replies :
         LET out == _generate_shadow_page(reply, cur.optimization_data)
         IN  /\ IF out.ok
                THEN TaskEnd(r, i, AssembleResult(req[r].products[i],
                                                 cur.optimization_data,
                                                 cur.schema_data, out.value))
                ELSE TaskEnd(r, i, OptimizationFailure(out.error))
             /\ ai_calls' = [ai_calls EXCEPT ![r][i] = Replied(@, reply)]
    /\ UNCHANGED <<api_key, hpc, req, batch_id, summary, response,
                   batch_results, uuids, last_read, first_stored, score_vars, feed_vars>>

\* gather has every result: optimize_batch builds the summary (lines 102-115)
\* and the handler stores it and answers (main.py lines 128-142)
HandlerResume(r) ==
    /\ NextUp(r, 0)
    /\ hpc[r] = "gather"
    /\ ready' = Tail(ready)
    /\ StoreAndRespond(r, batch_id[r][1], gathered[r])
    /\ UNCHANGED <<api_key, running, req, batch_id, sem, pc, cur, opres, gathered,
                   errors, ai_calls, uuids, last_read, score_vars, feed_vars>>

\* GET /api/batch-result/{batch_id}, main.py lines 146-150
get_batch_result(id) ==
    /\ LoopIdle
    /\ last_read' = <<[batch_id |-> id,
                       status_code |-> IF batch_results[id] = <<>> THEN 404 ELSE 200,
                       run |-> batch_results[id]]>>
    /\ UNCHANGED <<api_key, ready, running, hpc, req, batch_id, sem, pc, cur, opres,
                   gathered, errors, ai_calls, summary, response, batch_results, uuids,
                   first_stored, score_vars, feed_vars>>

(***************************************************************************)
(* The replies the AI service is tried with.                               *)
(***************************************************************************)
ContentReplies ==
    {Reply(Text(f, FullObject)) : f \in {"none", "json", "plain"}}
    \cup {Reply(Text("none", b)) :
            b \in {TitleOnly, EmptyObject, NullUseCases, ArrayJSON, Garbage}}
    \cup {Failure(k, ServiceMessage(k)) : k \in FailureKinds}

SchemaReplies ==
    {Reply(Text(f, FullObject)) : f \in {"none", "json"}}
    \cup {Reply(Text("none", ArrayJSON)), Reply(Text("none", Garbage)),
          Failure("APIError", ServiceMessage("APIError"))}

ShadowReplies ==
    {Reply(Text("none", Garbage)), Failure("APIError", ServiceMessage("APIError"))}

\* the batch specification tries the service with fewer replies per call
BatchContentReplies ==
    {Reply(Text("none", FullObject)), Reply(Text("none", TitleOnly)),
     Reply(Text("none", Garbage)),
     Failure("AuthenticationError", ServiceMessage("AuthenticationError"))}

BatchSchemaReplies ==
    {Reply(Text("none", FullObject)), Failure("APIError", ServiceMessage("APIError"))}

\* the store specification tries the service with one good and one bad reply
FewContentReplies ==
    {Reply(Text("none", FullObject)),
     Failure("AuthenticationError", ServiceMessage("AuthenticationError"))}

FewSchemaReplies == {Reply(Text("none", FullObject))}

FewShadowReplies == {Reply(Text("none", Garbage))}

(***************************************************************************)
(* Spec: one batch submission of up to MaxProducts products.               *)
(***************************************************************************)
Next ==
    \/ \E r \in {1} : Arrive(r, ProductLists(MaxProducts), OptionValues(MaxConcurrent))
    \/ \E r \in {1} : HandlerStart(r)
    \/ \E r \in {1}, i \in 1..MaxProducts : TaskStart(r, i)
    \/ \E r \in {1}, i \in 1..MaxProducts : ContentReply(r, i, BatchContentReplies)
    \/ \E r \in {1}, i \in 1..MaxProducts : SchemaReply(r, i, BatchSchemaReplies)
    \/ \E r \in {1}, i \in 1..MaxProducts : ShadowReply(r, i, FewShadowReplies)
    \/ \E r \in {1} : HandlerResume(r)

Spec == Init /\ [][Next]_vars

(***************************************************************************)
(* SpecProduct: the optimization of one product, with every kind of reply  *)
(* of the AI service at each of its three calls.                           *)
(***************************************************************************)
OneProduct == {<<p>> : p \in ProductInput}

NextProduct ==
    \/ \E r \in {1} : Arrive(r, OneProduct, {<<>>})
    \/ \E r \in {1} : HandlerStart(r)
    \/ \E r \in {1}, i \in {1} : TaskStart(r, i)
    \/ \E r \in {1}, i \in {1} : ContentReply(r, i, ContentReplies)
    \/ \E r \in {1}, i \in {1} : SchemaReply(r, i, SchemaReplies)
    \/ \E r \in {1}, i \in {1} : ShadowReply(r, i, ShadowReplies)
    \/ \E r \in {1} : HandlerResume(r)

SpecProduct == Init /\ [][NextProduct]_vars

(***************************************************************************)
(* SpecStore: several batch submissions, one after another or overlapping, *)
(* with caller-supplied and generated batch ids, and reads of the store.   *)
(***************************************************************************)
\* the batches of the store specification: empty, or the one product p1
StoreLists == {<<>>, <<[product_id |-> "p1"]>>}

\* they name no max_concurrent
StoreOptions == {<<>>}

NextStore ==
    \/ \E r \in Reqs : Arrive(r, StoreLists, StoreOptions)
    \/ \E r \in Reqs : HandlerStart(r)
    \/ \E r \in Reqs, i \in {1} : TaskStart(r, i)
    \/ \E r \in Reqs, i \in {1} : ContentReply(r, i, FewContentReplies)
    \/ \E r \in Reqs, i \in {1} : SchemaReply(r, i, FewSchemaReplies)
    \/ \E r \in Reqs, i \in {1} : ShadowReply(r, i, FewShadowReplies)
    \/ \E r \in Reqs : HandlerResume(r)
    \/ \E id \in AllIds : get_batch_result(id)

SpecStore == Init /\ [][NextStore]_vars

(***************************************************************************)
(* SpecScore: the scoring function alone, on every JSON object over the    *)
(* six scored fields.                                                      *)
(***************************************************************************)
\* every JSON object over the six scored fields
ScoreInputs == {d \in [DataFields -> FieldKinds] : d["ai_summary"] = "absent"}

InitScore ==
    /\ EngineInit
    /\ api_key = "set"
    /\ score_in \in ScoreInputs
    /\ score_out = <<>>
    /\ FeedIdle

\* line 56: optimization_score = self._calculate_optimization_score(optimization_data)
CalcScore ==
    /\ score_out = <<>>
    /\ score_out' = <<_calculate_optimization_score(score_in)>>
    /\ UNCHANGED <<score_in, engine_vars, feed_vars>>

NextScore == CalcScore

SpecScore == InitScore /\ [][NextScore]_vars

(***************************************************************************)
(* The feed exporters, src/exporters/feed_generators.py.                   *)
(* A text is a sequence of characters.  "|", ",", QUOT ("), LT (<), AMP    *)
(* (&), LF, CR and VT (a control character that XML 1.0 forbids) are the   *)
(* characters the formats treat specially; every other element ("a",       *)
(* "p1", "in_stock", ...) stands for a run of ordinary characters.         *)
(***************************************************************************)
\* results in one exported list
MaxFeedResults == 2

\* semantic tags of one result
MaxTags == 7

\* semantic_tags[:5]
LabelTags == 5

TagNames == <<"t1", "t2", "t3", "t4", "t5", "t6", "t7", "t8", "t9">>
Tag(i) == <<TagNames[i]>>

\* the tag lists tried: t1..tn for every n, one empty tag, a tag that holds "|"
TagLists ==
    {[i \in 1..n |-> Tag(i)] : n \in 0..MaxTags}
    \cup {<< <<>> >>, << <<"a", "|", "a">>, Tag(1) >>}

\* the titles tried: plain, empty, with a comma, quoted, with markup
\* characters, with line ends, with a control character
FeedTitles ==
    {<<"a">>, <<>>, <<"a", ",", "a">>, <<"QUOT", "a", "QUOT">>, <<"LT", "AMP">>,
     <<"a", "LF", "a">>, <<"a", "CR", "LF">>, <<"a", "VT">>}

FeedIds == {<<"p1">>, <<"p2">>}

\* the fields of an Optimized Result the exporters read
FeedResult(id, title, description, tags) ==
    [product_id |-> id, ai_title |-> title, ai_description |-> description,
     semantic_tags |-> tags]

FeedResults ==
    {FeedResult(id, <<"a">>, <<"d">>, tags) : id \in FeedIds, tags \in TagLists}
    \cup {FeedResult(id, title, <<>>, <<Tag(1)>>) : id \in FeedIds, title \in FeedTitles}

FeedLists == UNION {[1..k -> FeedResults] : k \in 0..MaxFeedResults}

RECURSIVE join(_, _)
\* sep.join(texts)
join(sep, texts) ==
    IF texts = <<>> THEN <<>>
    ELSE IF Len(texts) = 1 THEN texts[1]
    ELSE texts[1] \o <<sep>> \o join(sep, Tail(texts))

\* product.semantic_tags[:5]
FirstTags(tags) ==
    SubSeq(tags, 1, IF Len(tags) < LabelTags THEN Len(tags) ELSE LabelTags)

\* '|'.join(product.semantic_tags[:5])
custom_label_0(tags) == join("|", FirstTags(tags))

\* an XML element with its text
Element(name, text) == [name |-> name, text |-> text]

\* lines 15-23: the item of one product
Item(product) ==
    <<Element("g:id", product.product_id),
      Element("g:title", product.ai_title),
      Element("g:description", product.ai_description),
      Element("g:availability", <<"in_stock">>),
      Element("g:condition", <<"new">>)>>
    \o (IF product.semantic_tags # <<>>
        THEN <<Element("g:custom_label_0", custom_label_0(product.semantic_tags))>>
        ELSE <<>>)

\* tostring(rss, 'utf-8') on a text: & and < become entities, every other
\* character is written as it is
tostring(text) ==
    [k \in 1..Len(text) |->
        CASE text[k] = "AMP" -> "&amp;"
          [] text[k] = "LT"  -> "&lt;"
          [] OTHER           -> text[k]]

\* minidom.parseString raises ExpatError on a character XML does not allow
ExpatError(text) == \E k \in 1..Len(text) : text[k] = "VT"

RECURSIVE LineEnds(_)
\* the parser's line-end handling: CR LF and a lone CR are read as LF
LineEnds(text) ==
    IF text = <<>> THEN <<>>
    ELSE IF text[1] = "CR"
    THEN <<"LF">> \o LineEnds(IF Len(text) >= 2 /\ text[2] = "LF"
                              THEN SubSeq(text, 3, Len(text)) ELSE Tail(text))
    ELSE <<text[1]>> \o LineEnds(Tail(text))

\* the character an entity stands for
Entity(c) ==
    CASE c = "&amp;"  -> "AMP"
      [] c = "&lt;"   -> "LT"
      [] c = "&quot;" -> "QUOT"
      [] OTHER        -> c

\* minidom.parseString on a text of the serialized tree
parseString(text) == [k \in 1..Len(LineEnds(text)) |-> Entity(LineEnds(text)[k])]

\* toprettyxml on a text node: &, < and " are written as entities
toprettyxml(text) ==
    [k \in 1..Len(text) |->
        CASE text[k] = "AMP"  -> "&amp;"
          [] text[k] = "LT"   -> "&lt;"
          [] text[k] = "QUOT" -> "&quot;"
          [] OTHER            -> text[k]]

\* lines 25-27 on one element
Reparsed(e) == Element(e.name, toprettyxml(parseString(tostring(e.text))))

\* generate_google_merchant_xml, lines 8-27: the document, or the exception
\* of minidom.parseString
generate_google_merchant_xml(products) ==
    LET items == [k \in 1..Len(products) |-> Item(products[k])]
    IN  IF \E k \in 1..Len(items) : \E j \in 1..Len(items[k]) :
              ExpatError(tostring(items[k][j].text))
        THEN [ok |-> FALSE, error |-> "ExpatError", items |-> <<>>]
        ELSE [ok |-> TRUE, error |-> "",
              items |-> [k \in 1..Len(items) |->
                           [j \in 1..Len(items[k]) |-> Reparsed(items[k][j])]]]

\* line 33
headers ==
    << <<"id">>, <<"title">>, <<"description">>, <<"availability">>,
       <<"condition">>, <<"custom_label_0">> >>

\* lines 37-44: the row of one product
Row(product) ==
    <<product.product_id, product.ai_title, product.ai_description,
      <<"in_stock">>, <<"new">>,
      IF product.semantic_tags # <<>> THEN custom_label_0(product.semantic_tags)
      ELSE <<>> >>

\* csv.writer, QUOTE_MINIMAL: a field is quoted when it holds the delimiter,
\* the quote character or a character of the line terminator
NeedsQuotes(field) ==
    \E k \in 1..Len(field) : field[k] \in {",", "QUOT", "CR", "LF"}

RECURSIVE DoubleQuotes(_)
\* doublequote: every quote character inside a quoted field is written twice
DoubleQuotes(field) ==
    IF field = <<>> THEN <<>>
    ELSE (IF field[1] = "QUOT" THEN <<"QUOT", "QUOT">> ELSE <<field[1]>>)
         \o DoubleQuotes(Tail(field))

WriteField(field) ==
    IF NeedsQuotes(field) THEN <<"QUOT">> \o DoubleQuotes(field) \o <<"QUOT">>
    ELSE field

\* writer.writerow(row): the fields, comma-separated, and CR LF
writerow(row) ==
    join(",", [k \in 1..Len(row) |-> WriteField(row[k])]) \o <<"CR", "LF">>

RECURSIVE writerows(_)
\* lines 36-45, one writerow per product
writerows(products) ==
    IF products = <<>> THEN <<>>
    ELSE writerow(Row(products[1])) \o writerows(Tail(products))

\* generate_meta_tiktok_csv, lines 29-47
generate_meta_tiktok_csv(products) == writerow(headers) \o writerows(products)

(***************************************************************************)
(* SpecFeed: the two exporters alone, on lists of Optimized Results.       *)
(***************************************************************************)
InitFeed ==
    /\ EngineInit
    /\ api_key = "set"
    /\ ScoreIdle
    /\ feed_in \in FeedLists
    /\ xml_out = <<>>
    /\ csv_out = <<>>

\* main.py line 198: exporter.generate_google_merchant_xml(products)
export_google_merchant ==
    /\ xml_out = <<>>
    /\ xml_out' = <<generate_google_merchant_xml(feed_in)>>
    /\ UNCHANGED <<feed_in, csv_out, engine_vars, score_vars>>

\* main.py line 215: exporter.generate_meta_tiktok_csv(products)
export_meta_csv ==
    /\ csv_out = <<>>
    /\ csv_out' = <<generate_meta_tiktok_csv(feed_in)>>
    /\ UNCHANGED <<feed_in, xml_out, engine_vars, score_vars>>

NextFeed == export_google_merchant \/ export_meta_csv

SpecFeed == InitFeed /\ [][NextFeed]_vars

(***************************************************************************)
(* What the claims speak of.                                               *)
(***************************************************************************)
\* the batch a request submitted, and its size
Submitted(r) == req[r].products
Size(r) == Len(req[r].products)

\* the max_concurrent the batch of request r runs with
Gate(r) == max_concurrent(req[r].optimization_options)

\* engine.optimize_batch has been entered for request r / has returned
Running(r) == hpc[r] \in {"gather", "done"}
Returned_(r) == hpc[r] = "done"

\* the tasks of r admitted through the gate and not yet finished
InFlight(r) == {i \in DOMAIN pc[r] : pc[r][i] \in {"content", "schema", "shadow"}}

\* the tasks of r with an AI-service call outstanding
Calling(r) ==
    {i \in DOMAIN ai_calls[r] :
        \E k \in 1..Len(ai_calls[r][i]) : ai_calls[r][i][k].reply = "pending"}

\* the tasks of r for product id p whose optimize_product call ended in state st
TasksOf(r, p, st) ==
    {i \in 1..Size(r) : Submitted(r)[i].product_id = p /\ opres[r][i].state = st}

\* the entries of a list of results or error records that carry product id p
Carrying(list, p) == {k \in 1..Len(list) : list[k].product_id = p}

\* C1: while a batch runs with max_concurrent >= 1, the optimize_product calls
\* in flight never outnumber max_concurrent: every task in flight holds one
\* permit of the gate and the gate has max_concurrent permits in all; with
\* max_concurrent = 1 at most one AI-service call is outstanding
C1_InFlightBounded ==
    \A r \in Reqs :
        Running(r) /\ Gate(r) >= 1 =>
            /\ Cardinality(InFlight(r)) <= Gate(r)
            /\ sem[r].value + Cardinality(InFlight(r)) = Gate(r)
            /\ Calling(r) \subseteq InFlight(r)
            /\ Gate(r) = 1 => Cardinality(Calling(r)) <= 1

\* a batch of several products behind a gate of 1: one call is outstanding and
\* another product has not started
C1_Witness ==
    \E r \in Reqs :
        /\ Running(r) /\ Gate(r) = 1 /\ Size(r) >= 2
        /\ Cardinality(Calling(r)) = 1
        /\ \E j \in DOMAIN pc[r] : pc[r][j] = "created"

\* C2: in a returned batch every task has run to an outcome; the products
\* whose optimize_product call returned are exactly those with an Optimized
\* Result in the summary, and each product whose call raised has one error
\* record with its product id and the message of its failure
C2_FaultIsolation ==
    \A r \in Reqs :
        Returned_(r) =>
            LET run == summary[r][1]
            IN  /\ \A i \in 1..Size(r) : opres[r][i].state \in {"returned", "raised"}
                /\ \A p \in ProductIds :
                     /\ Cardinality(Carrying(run.results, p))
                          = Cardinality(TasksOf(r, p, "returned"))
                     /\ Cardinality(Carrying(run.errors, p))
                          = Cardinality(TasksOf(r, p, "raised"))
                /\ \A k \in 1..Len(run.errors) :
                     \E i \in TasksOf(r, run.errors[k].product_id, "raised") :
                        run.errors[k].error = opres[r][i].error
                        /\ run.errors[k].error # <<>>

\* one product of three failed: two results, one error record with its id
C2_Witness ==
    \E r \in Reqs :
        /\ Returned_(r) /\ Size(r) = 3
        /\ \E i \in 1..3 :
             /\ opres[r][i].state = "raised"
             /\ \A j \in (1..3) \ {i} : opres[r][j].state = "returned"
             /\ Len(summary[r][1].results) = 2
             /\ Len(summary[r][1].errors) = 1
             /\ summary[r][1].errors[1].product_id = Submitted(r)[i].product_id

\* the semaphore could not be built, and optimize_batch raised
BatchRaised(r) ==
    /\ hpc[r] = "failed"
    /\ response[r][1].detail = "Semaphore initial value must be >= 0"

\* every task of the batch waits at the gate and nothing will ever release it
BatchStuck(r) ==
    /\ hpc[r] = "gather"
    /\ Size(r) >= 1
    /\ \A i \in DOMAIN pc[r] : pc[r][i] = "waiting"
    /\ sem[r].value = 0

\* C3: whatever integer max_concurrent is, optimize_batch neither raises nor
\* leaves its tasks waiting at the gate for ever
C3_NeverFailsNorStalls ==
    \A r \in Reqs : ~BatchRaised(r) /\ ~BatchStuck(r)

\* C4: in a returned summary every submitted product has exactly one outcome:
\* the results and the error records together are as many as the products,
\* product id by product id, and the counts add up to total_products
C4_ExactlyOneOutcome ==
    \A r \in Reqs :
        Returned_(r) =>
            LET run == summary[r][1]
            IN  /\ run.total_products = Size(r)
                /\ run.successful_optimizations = Len(run.results)
                /\ run.failed_optimizations = Len(run.errors)
                /\ run.successful_optimizations + run.failed_optimizations
                     = run.total_products
                /\ \A p \in ProductIds :
                     Cardinality(Carrying(run.results, p))
                       + Cardinality(Carrying(run.errors, p))
                     = Cardinality(Carrying(Submitted(r), p))

\* a batch of two with one success and one failure
C4_Witness ==
    \E r \in Reqs :
        /\ Returned_(r) /\ Size(r) = 2
        /\ summary[r][1].successful_optimizations = 1
        /\ summary[r][1].failed_optimizations = 1

\* C5: in a returned summary the product_id of every Optimized Result and of
\* every error record is the product_id of exactly one submitted record
C5_ResultMatchesOneRecord ==
    \A r \in Reqs :
        Returned_(r) =>
            /\ \A k \in 1..Len(summary[r][1].results) :
                 Cardinality(Carrying(Submitted(r),
                                      summary[r][1].results[k].product_id)) = 1
            /\ \A k \in 1..Len(summary[r][1].errors) :
                 Cardinality(Carrying(Submitted(r),
                                      summary[r][1].errors[k].product_id)) = 1

RECURSIVE SumOfReturned(_, _)
\* the scores of the first n tasks of r whose optimize_product returned, added up
SumOfReturned(r, n) ==
    IF n = 0 THEN FZero
    ELSE IF opres[r][n].state = "returned"
         THEN FAdd(SumOfReturned(r, n - 1), gathered[r][n][1].optimization_score)
         ELSE SumOfReturned(r, n - 1)

\* the tasks of r whose optimize_product returned
Successes(r) == {i \in 1..Size(r) : opres[r][i].state = "returned"}

\* C7: the average of a returned summary is the sum of the scores of the
\* products that succeeded over their number, and 0 when none succeeded; the
\* empty batch returns 0 products, 0 successes, 0 failures, average 0
C7_AverageOfSuccesses ==
    \A r \in Reqs :
        Returned_(r) =>
            LET run == summary[r][1]
            IN  /\ run.average_optimization_score
                     = IF Successes(r) = {} THEN Quotient(FZero, 1)
                       ELSE Quotient(SumOfReturned(r, Size(r)),
                                     Cardinality(Successes(r)))
                /\ Size(r) = 0 =>
                     /\ run.total_products = 0
                     /\ run.successful_optimizations = 0
                     /\ run.failed_optimizations = 0
                     /\ run.average_optimization_score = Quotient(FZero, 1)
                     /\ response[r][1].status_code = 200

\* two successes with different scores beside one failure
C7_Witness ==
    \E r \in Reqs :
        /\ Returned_(r)
        /\ Cardinality(Successes(r)) = 2
        /\ Size(r) = 3
        /\ summary[r][1].results[1].optimization_score
             # summary[r][1].results[2].optimization_score
        /\ summary[r][1].average_optimization_score.den = 2

\* the fields of the scored input that are present and non-empty
PresentFields == {f \in ScoredFields : score_in[f] = "value"}

\* the weights of a set of fields added up, in hundredths
WeightSum(S) ==
    20 * Cardinality(S \cap {"ai_title", "ai_description"})
    + 15 * Cardinality(S \ {"ai_title", "ai_description"})

\* a double in [0, 1] rounded to whole hundredths (hi is in units of 2^-27)
Hundredths(x) == (100 * (x.hi \div 64) + 2^20) \div 2^21

\* C6: the score of every JSON object over the six fields is the sum of the
\* weights 0.20, 0.20, 0.15, 0.15, 0.15, 0.15 of the fields that are present
\* and non-empty; it lies in [0, 1], is 1.0 exactly when all six are present
\* and non-empty, and 0.0 exactly when none is
C6_ScoreIsWeightSum ==
    score_out # <<>> =>
        LET score == score_out[1]
        IN  /\ FLe(FZero, score) /\ FLe(score, FOne)
            /\ Hundredths(score) = WeightSum(PresentFields)
            /\ score = FOne <=> PresentFields = ScoredFields
            /\ score = FZero <=> PresentFields = {}

\* a title and tags, an empty description, a null FAQ, the rest absent: 0.35
C6_Witness ==
    /\ score_out # <<>>
    /\ PresentFields = {"ai_title", "semantic_tags"}
    /\ score_in["ai_description"] = "empty"
    /\ score_in["faq_content"] = "null"
    /\ Hundredths(score_out[1]) = 35

\* the log of the AI-service calls made for task i of request r
Log(r, i) == ai_calls[r][i]

\* task i of request r has ended
Done(r, i) == i \in DOMAIN pc[r] /\ pc[r][i] = "done"

\* the schema step of a finished task did not get a JSON object from the service
SchemaFailed(r, i) ==
    Len(Log(r, i)) >= 2 /\ Log(r, i)[2].reply \in {"error", "unparseable", "misshapen"}

\* the shadow-page call of a finished task failed
ShadowFailed(r, i) == Len(Log(r, i)) >= 3 /\ Log(r, i)[3].reply = "error"

\* C8: when the content step gave a well-typed JSON object, a failure of the
\* schema step (error, unparseable or wrongly shaped reply) or of the
\* shadow-page step never aborts: optimize_product returns an Optimized Result
\* that carries the local fallback of each failed step
C8_LaterStepsNeverAbort ==
    \A r \in Reqs : \A i \in DOMAIN pc[r] :
        Done(r, i) /\ Log(r, i)[1].reply = "ok"
                   /\ (SchemaFailed(r, i) \/ ShadowFailed(r, i)) =>
            /\ opres[r][i].state = "returned"
            /\ gathered[r][i] # <<>>
            /\ SchemaFailed(r, i) => gathered[r][i][1].json_ld_schema = "basic"
            /\ ShadowFailed(r, i) => gathered[r][i][1].shadow_page_content = "basic"

\* the content step of a finished task failed: the call raised, or its reply
\* was not valid JSON
ContentFailed(r, i) == Done(r, i) /\ Log(r, i)[1].reply \in {"error", "unparseable"}

\* the message of the failure of task i carries the text m
Carries(r, i, m) == \E k \in 1..Len(opres[r][i].error) : opres[r][i].error[k] = m

\* a failed content step aborts the operation: optimize_product raised the
\* unified failure, no result, and no further AI call was made
Aborted(r, i) ==
    /\ opres[r][i].state = "raised"
    /\ gathered[r][i] = <<>>
    /\ Len(Log(r, i)) = 1
    /\ opres[r][i].error[1] = "Product optimization failed: "

\* C9 as stated: every failure of the content step, an invalid-JSON reply
\* included, aborts the operation with a failure that carries the original
\* error message
C9_FailureCarriesOriginal ==
    \A r \in Reqs : \A i \in DOMAIN pc[r] :
        ContentFailed(r, i) =>
            Aborted(r, i) /\ Carries(r, i, Log(r, i)[1].original)

\* C9 amended: every failure of the content step aborts the operation with
\* the unified failure; the message carries the original error message when
\* the call itself failed, and the fixed text "Invalid AI response format",
\* without the parser's message, when the reply was not valid JSON
C9_FailureAborts ==
    \A r \in Reqs : \A i \in DOMAIN pc[r] :
        ContentFailed(r, i) =>
            /\ Aborted(r, i)
            /\ Log(r, i)[1].original # ""
            /\ Log(r, i)[1].reply = "error" => Carries(r, i, Log(r, i)[1].original)
            /\ Log(r, i)[1].reply = "unparseable" =>
                 /\ opres[r][i].error
                      = <<"Product optimization failed: ", "Invalid AI response format">>
                 /\ ~Carries(r, i, Log(r, i)[1].original)

\* the service answered the content call with text that is no JSON
C9_Witness ==
    \E r \in Reqs : \E i \in DOMAIN pc[r] :
        /\ Done(r, i)
        /\ Log(r, i)[1].reply = "unparseable"
        /\ Log(r, i)[1].original = MSG_JSON
        /\ opres[r][i].state = "raised"
        /\ summary[r] # <<>> /\ summary[r][1].failed_optimizations = 1

Completes(r, id) ==
    /\ hpc[r] # "done" /\ hpc'[r] = "done"
    /\ batch_id'[r] = <<id>>

ReadText(e) == [k \in 1..Len(e.text) |-> Entity(e.text[k])]

\* a CSV reader: comma-separated fields, records ended by CR LF, CR or LF,
\* fields in double quotes with doubled quotes inside.  A comma or a line end
\* is a separator when an even number of quotes precedes it
Outside(s, k) == Cardinality({j \in 1..(k - 1) : s[j] = "QUOT"}) % 2 = 0

Least(S) == CHOOSE k \in S : \A j \in S : k <= j

RECURSIVE Undouble(_)
Undouble(f) ==
    IF f = <<>> THEN <<>>
    ELSE IF Len(f) >= 2 /\ f[1] = "QUOT" /\ f[2] = "QUOT"
    THEN <<"QUOT">> \o Undouble(SubSeq(f, 3, Len(f)))
    ELSE <<f[1]>> \o Undouble(Tail(f))

Unquote(f) ==
    IF Len(f) >= 2 /\ f[1] = "QUOT" /\ f[Len(f)] = "QUOT"
    THEN Undouble(SubSeq(f, 2, Len(f) - 1))
    ELSE f

RECURSIVE Fields(_)
Fields(rec) ==
    LET commas == {k \in 1..Len(rec) : rec[k] = "," /\ Outside(rec, k)}
    IN  IF commas = {} THEN <<Unquote(rec)>>
        ELSE <<Unquote(SubSeq(rec, 1, Least(commas) - 1))>>
             \o Fields(SubSeq(rec, Least(commas) + 1, Len(rec)))

RECURSIVE Records(_)
Records(s) ==
    LET ends == {k \in 1..Len(s) : s[k] \in {"CR", "LF"} /\ Outside(s, k)}
        e    == Least(ends)
        next == IF s[e] = "CR" /\ e < Len(s) /\ s[e + 1] = "LF" THEN e + 2 ELSE e + 1
    IN  IF s = <<>> THEN <<>>
        ELSE IF ends = {} THEN <<Fields(s)>>
        ELSE <<Fields(SubSeq(s, 1, e - 1))>> \o Records(SubSeq(s, next, Len(s)))

\* the rows a CSV reader gets from a stream
ReadCSV(s) == Records(s)

\* the first min(n, 5) of n tags, joined by "|"
ExpectedLabel(tags) ==
    join("|", [i \in 1..(IF Len(tags) < 5 THEN Len(tags) ELSE 5) |-> tags[i]])

\* the six fields of a result as both feeds are to carry them
ExpectedFields(product) ==
    <<product.product_id, product.ai_title, product.ai_description,
      <<"in_stock">>, <<"new">>, ExpectedLabel(product.semantic_tags)>>

FeedNames ==
    <<"g:id", "g:title", "g:description", "g:availability", "g:condition",
      "g:custom_label_0">>

\* an item of the XML document carries the fields of the product, in the
\* order of the mapping; texts are compared as an XML reader gets them, with
\* line ends read as LF, and a label that is left out counts as an empty one
ItemMatches(item, product) ==
    /\ Len(item) \in {5, 6}
    /\ \A j \in 1..Len(item) :
         /\ item[j].name = FeedNames[j]
         /\ ReadText(item[j]) = LineEnds(ExpectedFields(product)[j])
    /\ Len(item) = 5 => ExpectedLabel(product.semantic_tags) = <<>>

\* C11: the Merchant XML holds one item, and the CSV one row after the
\* header row, for each result of the exported list, in input order, with
\* id, title, description, "in_stock", "new" and the label of the result; the
\* label is the first min(n, 5) tags joined by "|"
C11_FeedsCarryEveryResult ==
    /\ xml_out # <<>> =>
         /\ xml_out[1].ok
         /\ Len(xml_out[1].items) = Len(feed_in)
         /\ \A k \in 1..Len(feed_in) : ItemMatches(xml_out[1].items[k], feed_in[k])
    /\ csv_out # <<>> =>
         ReadCSV(csv_out[1])
           = <<headers>> \o [k \in 1..Len(feed_in) |-> ExpectedFields(feed_in[k])]

\* the AI calls of one optimize_product run, in the order of its steps
StepOrder == <<"content", "schema", "shadow">>

\* C12: the AI calls of a product are made in the order content, schema,
\* shadow page, each only after the one before has been answered, so at most
\* one is outstanding; the schema call is made only after the content reply
\* parsed as JSON; meta data, score and assembly of the result come only after
\* the shadow-page step
C12_StepsInSequence ==
    \A r \in Reqs : \A i \in DOMAIN pc[r] :
        /\ Len(Log(r, i)) <= 3
        /\ \A k \in 1..Len(Log(r, i)) :
             /\ Log(r, i)[k].step = StepOrder[k]
             /\ k < Len(Log(r, i)) => Log(r, i)[k].reply # "pending"
        /\ Len(Log(r, i)) >= 2 => Log(r, i)[1].reply \in {"ok", "nulled", "misshapen"}
        /\ pc[r][i] \in {"content", "schema", "shadow"} =>
             /\ Log(r, i)[Len(Log(r, i))].step = pc[r][i]
             /\ Log(r, i)[Len(Log(r, i))].reply = "pending"
             /\ opres[r][i].state = "pending"
        /\ opres[r][i].state = "returned"
             \/ (opres[r][i].state = "raised" /\ Carries(r, i, MSG_VALIDATION)) =>
             /\ Len(Log(r, i)) = 3
             /\ Log(r, i)[3].reply # "pending"

\* the shadow-page call is outstanding after the schema call failed and the
\* basic schema took its place
C12_Witness ==
    \E r \in Reqs : \E i \in DOMAIN pc[r] :
        /\ Len(Log(r, i)) = 3
        /\ Log(r, i)[1].reply = "ok"
        /\ Log(r, i)[2].reply = "error"
        /\ Log(r, i)[3].reply = "pending"
        /\ cur.schema_data = Schema("basic", "object")

\* C13: an outstanding AI call leaves the event loop to the other tasks: with
\* max_concurrent >= 2, while the call of one product is outstanding, the next
\* product of the batch, runnable and with a permit free, can be admitted and
\* start
C13_CallsYieldControl ==
    \A r \in Reqs : \A i \in Calling(r) : \A j \in DOMAIN pc[r] :
        /\ Gate(r) >= 2
        /\ pc[r][j] = "created"
        /\ ready # <<>> /\ Head(ready) = <<r, j>>
        /\ ~locked(sem[r])
        => ENABLED TaskStart(r, j)

RECURSIVE ReturnedOf(_, _)
\* the Optimized Results of the first n products of r, failed products left out
ReturnedOf(r, n) ==
    IF n = 0 THEN <<>>
    ELSE ReturnedOf(r, n - 1)
         \o (IF opres[r][n].state = "returned" THEN gathered[r][n] ELSE <<>>)

\* task i of request r fails in this step
Fails(r, i) == opres[r][i].state = "pending" /\ opres'[r][i].state = "raised"

\* C14: the results of a returned summary are the Optimized Results of the
\* submitted products in submission order, the failed ones left out; the
\* errors list grows by one record, at its end, at the moment a product fails,
\* and the summary returns it as it stands
C14_ResultsInSubmissionOrder ==
    [][\A r \in Reqs :
          /\ hpc'[r] = "done" =>
               /\ summary'[r][1].results = ReturnedOf(r, Size(r))'
               /\ summary'[r][1].errors = errors'[r]
          /\ errors'[r] # errors[r] =>
               \E i \in DOMAIN opres[r] :
                  /\ Fails(r, i)
                  /\ errors'[r] = Append(errors[r],
                                         [product_id |-> Submitted(r)[i].product_id,
                                          error |-> opres'[r][i].error])]_vars

\* of three products the second failed: the results are those of the first
\* and the third, in that order, and they are told apart by their ids
C14_Witness ==
    \E r \in Reqs :
        /\ Returned_(r) /\ Size(r) = 3
        /\ opres[r][1].state = "returned"
        /\ opres[r][2].state = "raised"
        /\ opres[r][3].state = "returned"
        /\ Submitted(r)[1].product_id # Submitted(r)[3].product_id
        /\ summary[r][1].results = gathered[r][1] \o gathered[r][3]
        /\ summary[r][1].errors[1].product_id = Submitted(r)[2].product_id

====
